---- MODULE Spec2Model ----
(***************************************************************************)
(* A model of the cortex chunk store (chunk/chunk_store.go): the bucket    *)
(* planner, the index written by Put and the lookup done by Get.           *)
(*                                                                         *)
(* Times are model.Time values, i.e. milliseconds since the epoch; strings *)
(* are TLA+ strings and are built exactly as the code builds them          *)
(* (strconv.Itoa, fmt.Sprintf), so that two keys are equal in the model    *)
(* exactly when the code produces equal strings.                           *)
(***************************************************************************)
EXTENDS Integers, Sequences, FiniteSets, TLC

VARIABLES
    cfg,      \* AWSStore.cfg, the StoreConfig the store was built with
    s3,       \* the blob store: set of objects [key |-> object key, body |-> chunk]
    index,    \* the KV store: set of rows [t |-> table, h |-> hash key, r |-> range key]
    cache,    \* the chunk cache: set of objects (empty when no cache is configured)
    put,      \* the last Put call: its arguments, result and submitted index writes
    get,      \* the last Get call since the last Put: its arguments and result
    nPuts,    \* number of Put calls made so far
    wr,       \* the bucket plan computed for a chunk's range (write path)
    rd,       \* the bucket plan computed for a query's range (read path)
    fanSite,  \* the function whose fan-out is running (putChunks, ...)
    fanTasks, \* its spawned tasks: position in the goroutine and outcome
    fanRecv,  \* the messages its collecting loop has received, in order
    fanRet,   \* what the function returned
    fanOp,    \* what the calling Put / Get (or lookup task) returned
    ctxDone,  \* cancellation of the request context: "no", or when it happened
    server,   \* ruler Server: Run / Stop progress
    workers,  \* ruler workers: position in worker.Run, item held, channels
    sched,    \* the scheduler: queue, in-flight items, closed
    clock,    \* time.Now(), in evaluation-interval ticks
    writers,  \* who wrote which index row: set of [userID, row]
    lookup    \* the last per-bucket lookup: its arguments, the items of its
              \* query and its result

storeVars == <<s3, index, cache, put, get, nPuts>>

planVars == <<wr, rd>>

fanVars == <<fanSite, fanTasks, fanRecv, fanRet, fanOp, ctxDone>>

rulerVars == <<server, workers, sched, clock>>

lookVars == <<writers, lookup>>

vars == <<cfg, storeVars, planVars, fanVars, rulerVars, lookVars>>

-----------------------------------------------------------------------------
(* Program constants *)

secondsInHour == 3600

secondsInDay == 86400

msPerSecond == 1000

\* Milliseconds in an hour, for writing instants legibly.
H == secondsInHour * msPerSecond

\* Put calls in a behaviour.
MaxPuts == 2

-----------------------------------------------------------------------------
(* Bucket planner *)

\* model.Time.Unix(): seconds since the epoch of a millisecond timestamp.
Unix(t) == t \div msPerSecond

\* int64(c.cfg.TablePeriod / time.Second); TablePeriod is kept in seconds.
periodSeconds(c) == c.TablePeriod

tableForBucket_mutInclusive(c, bucketStart) ==
    IF ~c.UsePeriodicTables \/ bucketStart <= Unix(c.PeriodicTableStartAt)
    THEN c.TableName
    ELSE c.TablePrefix \o ToString(bucketStart \div periodSeconds(c))

tableForBucket(c, bucketStart) ==
    IF ~c.UsePeriodicTables \/ bucketStart < Unix(c.PeriodicTableStartAt)
    THEN c.TableName
    ELSE c.TablePrefix \o ToString(bucketStart \div periodSeconds(c))

firstDailyBucket_mutInstant(c) ==
    (Unix(c.DailyBucketsFrom) + secondsInDay - 1) \div secondsInDay

firstDailyBucket(c) == Unix(c.DailyBucketsFrom) \div secondsInDay

lastHourlyBucket_mutHourOfCutover(c) == Unix(c.DailyBucketsFrom) \div secondsInHour

lastHourlyBucket(c) == firstDailyBucket(c) * 24

\* The first loop of bigBuckets: hours fromHour..throughHour, stopping at the
\* first hour that is not below lastHourlyBucket.
RECURSIVE hourlyBuckets(_, _, _)
hourlyBuckets(c, i, throughHour) ==
    IF i > throughHour \/ i >= lastHourlyBucket(c)
    THEN <<>>
    ELSE <<[tableName |-> tableForBucket(c, i * secondsInHour),
            bucket    |-> ToString(i)]>>
         \o hourlyBuckets(c, i + 1, throughHour)

\* The second loop of bigBuckets: days fromDay..throughDay, skipping the days
\* below firstDailyBucket.
RECURSIVE dailyBuckets(_, _, _)
dailyBuckets(c, i, throughDay) ==
    IF i > throughDay
    THEN <<>>
    ELSE IF i < firstDailyBucket(c)
    THEN dailyBuckets(c, i + 1, throughDay)
    ELSE <<[tableName |-> tableForBucket(c, i * secondsInDay),
            bucket    |-> "d" \o ToString(i)]>>
         \o dailyBuckets(c, i + 1, throughDay)

bigBuckets_mutReadHourOfFrom(c, from, through) ==
    hourlyBuckets(c, Unix(from) \div secondsInHour, Unix(from) \div secondsInHour)
    \o dailyBuckets(c, Unix(from) \div secondsInDay, Unix(from) \div secondsInDay)

bigBuckets(c, from, through) ==
    LET fromHour    == Unix(from) \div secondsInHour
        throughHour == Unix(through) \div secondsInHour
        fromDay     == Unix(from) \div secondsInDay
        throughDay  == Unix(through) \div secondsInDay
    IN  hourlyBuckets(c, fromHour, throughHour)
        \o dailyBuckets(c, fromDay, throughDay)

-----------------------------------------------------------------------------
(* The planner applied to bounded inputs: one store config, the plan of one *)
(* chunk range (write path) and the plan of one query range (read path).   *)

\* Instants (ms) around the hour, day and cutover boundaries.
PlanTimes ==
    {0, H \div 2, H - 1, H, H + H \div 2, 2 * H, 23 * H, 24 * H,
     25 * H, 50 * H}

PlanDaily == {2 * H, 24 * H, 25 * H}

PlanPeriodic ==
    {[UsePeriodicTables |-> FALSE, PeriodicTableStartAt |-> 0, TablePeriod |-> secondsInDay],
     [UsePeriodicTables |-> TRUE, PeriodicTableStartAt |-> H, TablePeriod |-> secondsInHour],
     [UsePeriodicTables |-> TRUE, PeriodicTableStartAt |-> H + H \div 2, TablePeriod |-> secondsInHour],
     [UsePeriodicTables |-> TRUE, PeriodicTableStartAt |-> 24 * H, TablePeriod |-> secondsInDay],
     [UsePeriodicTables |-> TRUE, PeriodicTableStartAt |-> 25 * H, TablePeriod |-> secondsInDay]}

MkConfig(daily, p, withCache) ==
    [TableName            |-> "cortex",
     TablePrefix          |-> "cortex_",
     DailyBucketsFrom     |-> daily,
     UsePeriodicTables    |-> p.UsePeriodicTables,
     PeriodicTableStartAt |-> p.PeriodicTableStartAt,
     TablePeriod          |-> p.TablePeriod,
     ChunkCache           |-> withCache]

PlanConfigs == {MkConfig(d, p, FALSE) : d \in PlanDaily, p \in PlanPeriodic}

NoPlan == [from |-> -1, through |-> -1, buckets |-> <<>>]

NoPut == [userID |-> "", chunks |-> <<>>, fault |-> "none", err |-> "none",
          writeReqs |-> <<>>, blobFailed |-> {}, repeat |-> FALSE,
          sameStore |-> TRUE]

\* looked, lookErr: what lookupChunks returned; fromCache: the chunks the
\* cache served; cacheSame: the call left the cache as it was.
NoCall == [called |-> FALSE]

NoGet == [userID |-> "", from |-> -1, through |-> -1, matchers |-> <<>>,
          fault |-> "none", looked |-> <<>>, lookErr |-> "none",
          fromCache |-> <<>>, cacheSame |-> TRUE,
          err |-> "none", res |-> <<>>, called |-> FALSE,
          slice |-> <<>>, first |-> NoCall]

StoreIdle ==
    /\ s3 = {}
    /\ index = {}
    /\ cache = {}
    /\ put = NoPut
    /\ get = NoGet
    /\ nPuts = 0

NoReturn == [returned |-> FALSE]

\* No fan-out is running.
FanIdle ==
    /\ fanSite = "none"
    /\ fanTasks = <<>>
    /\ fanRecv = <<>>
    /\ fanRet = NoReturn
    /\ fanOp = NoReturn
    /\ ctxDone = "no"

\* acks: worker.Run calls workItemDone after Evaluate, as the worker of
\* chunk/chunk_store.go does; the worker of ruler/ruler.go does not.
NoServer == [ran |-> FALSE, stop |-> "idle", acks |-> TRUE]

NoScheduler == [queue |-> {}, inflight |-> {}, closed |-> FALSE]

\* No ruler server has been made.
RulerIdle ==
    /\ server = NoServer
    /\ workers = <<>>
    /\ sched = NoScheduler
    /\ clock = 0

NoLookup == [called |-> FALSE]

\* No per-bucket lookup has been recorded.
LookupIdle ==
    /\ writers = {}
    /\ lookup = NoLookup

InitPlan ==
    /\ LookupIdle
    /\ cfg \in PlanConfigs
    /\ StoreIdle
    /\ wr = NoPlan
    /\ rd = NoPlan
    /\ FanIdle
    /\ RulerIdle

\* calculateDynamoWrites plans the buckets of a chunk's [From, Through].
PlanWrite(from, through) ==
    /\ wr = NoPlan
    /\ wr' = [from |-> from, through |-> through,
              buckets |-> bigBuckets(cfg, from, through)]
    /\ UNCHANGED <<cfg, lookVars, storeVars, rd, fanVars, rulerVars>>

\* lookupChunks plans the buckets of a query's [from, through].
PlanRead(from, through) ==
    /\ rd = NoPlan
    /\ rd' = [from |-> from, through |-> through,
              buckets |-> bigBuckets(cfg, from, through)]
    /\ UNCHANGED <<cfg, lookVars, storeVars, wr, fanVars, rulerVars>>

NextPlan ==
    \/ \E from \in PlanTimes, through \in PlanTimes :
          from <= through /\ PlanWrite(from, through)
    \/ \E from \in PlanTimes, through \in PlanTimes :
          from <= through /\ PlanRead(from, through)

SpecPlan == InitPlan /\ [][NextPlan]_vars

-----------------------------------------------------------------------------
(* Keys *)

MetricNameLabel == "__name__"

chunkName(userID, chunkID) == userID \o "/" \o chunkID

hashValue(userID, bucket, metricName) ==
    userID \o ":" \o bucket \o ":" \o metricName

\* lex.Encode(label, value, chunkID): an order-preserving encoding of a tuple
\* of strings, each string terminated, so that the encoding of a tuple is a
\* byte prefix of the encoding of exactly its extensions.  The tuple itself
\* stands for its encoding.
rangeValue(label, value, chunkID) == <<label, value, chunkID>>

\* lex.Decode into three strings fails unless the value encodes three strings.
parseRangeValue(v) ==
    IF Len(v) = 3
    THEN [label |-> v[1], value |-> v[2], chunkID |-> v[3], err |-> "none"]
    ELSE [label |-> "", value |-> "", chunkID |-> "", err |-> "ErrIndexDecode"]

\* The BEGINS_WITH condition of a KV query on the range key.
BeginsWith(r, prefix) ==
    /\ Len(prefix) <= Len(r)
    /\ \A i \in 1..Len(prefix) : r[i] = prefix[i]

-----------------------------------------------------------------------------
(* The chunks and requests the store is exercised with *)

Tenants == {"u1", "u2"}

\* ctx without a tenant: user.GetID fails.
NoTenant == ""

Labels(m) == DOMAIN m

\* Chunk IDs encode (fingerprint, from, through).
FormatID(fp, from, through) ==
    ToString(fp) \o ":" \o ToString(from) \o ":" \o ToString(through)

MkChunk(fp, metric, from, through) ==
    [ID |-> FormatID(fp, from, through), Metric |-> metric,
     From |-> from, Through |-> through]

\* A series with no label besides its name.
cBare == MkChunk(1, (MetricNameLabel :> "up"), 100, 200)

cA == MkChunk(2, (MetricNameLabel :> "up") @@ ("job" :> "A"), 100, 200)

\* A chunk that spans hours 0 and 1.
cB == MkChunk(3, (MetricNameLabel :> "up") @@ ("job" :> "B"), 150, H + 500)

cAX == MkChunk(4, (MetricNameLabel :> "up") @@ ("job" :> "A") @@ ("inst" :> "X"),
               250, H + 500)

\* A chunk whose metric lacks __name__.
cNameless == MkChunk(5, ("job" :> "A"), 100, 200)

Chunks == {cBare, cA, cB, cAX, cNameless}

Batches == {<<cBare>>, <<cAX>>, <<cA, cB>>, <<cA, cA>>, <<cA, cNameless>>}

\* The Put calls: every batch by tenant u1 without a fault, one batch with
\* each fault, and one batch by another tenant and by a context with no tenant.
\* Faults: "blob1"/"blob2" - PutObject of the first/second chunk fails;
\* "cache" - StoreChunkData fails; "kv" - batchWriteDynamo fails.
PutCalls ==
    {[userID |-> "u1", chunks |-> b, fault |-> "none"] : b \in Batches}
    \cup {[userID |-> "u1", chunks |-> <<cA, cB>>, fault |-> f] :
             f \in {"blob1", "blob2", "cache", "kv"}}
    \cup {[userID |-> u, chunks |-> <<cA>>, fault |-> "none"] : u \in {"u2", NoTenant}}

\* Go compares strings byte-wise; the strings that occur in range keys and
\* chunk IDs, in that order.
ByteOrder ==
    <<cBare.ID, cA.ID, cB.ID, cAX.ID, cNameless.ID, "A", "B", "X", "inst", "job">>

StrRank ==
    [str \in {ByteOrder[i] : i \in DOMAIN ByteOrder} |->
        CHOOSE i \in DOMAIN ByteOrder : ByteOrder[i] = str]

StrLess(a, b) == StrRank[a] < StrRank[b]

\* The chunk.ID parser: the inverse of FormatID.
IDBounds ==
    [id \in {c.ID : c \in Chunks} |->
        LET c == CHOOSE c \in Chunks : c.ID = id
        IN  [from |-> c.From, through |-> c.Through]]

parseChunkID(id) == IDBounds[id]

Matcher(type, name, value) == [Type |-> type, Name |-> name, Value |-> value]

NameIsUp == Matcher("Equal", MetricNameLabel, "up")

MatcherLists ==
    {<<NameIsUp>>,
     <<NameIsUp, Matcher("Equal", "job", "A")>>,
     <<Matcher("NotEqual", "job", "A"), NameIsUp>>,
     <<NameIsUp, Matcher("Equal", "job", "A"), Matcher("Equal", "inst", "X")>>}

\* Matcher lists extractMetricName rejects.
BadMatcherLists ==
    {<<Matcher("Equal", "job", "A")>>,
     <<Matcher("NotEqual", MetricNameLabel, "up")>>}

QueryRanges ==
    {<<100, 200>>, <<250, H + 500>>, <<150, 180>>, <<200, 250>>, <<300, 400>>,
     <<H + 600, H + 700>>}

\* The Get calls: every range and matcher list by tenant u1, and single calls
\* with rejected matchers, by another tenant and by a context with no tenant.
GetCalls ==
    {[userID |-> "u1", from |-> r[1], through |-> r[2], matchers |-> m] :
        r \in QueryRanges, m \in MatcherLists}
    \cup {[userID |-> "u1", from |-> 100, through |-> 200, matchers |-> m] :
             m \in BadMatcherLists}
    \cup {[userID |-> u, from |-> 100, through |-> 200, matchers |-> <<NameIsUp>>] :
             u \in {"u2", NoTenant}}

\* One fault a Get call may meet: "kv" - the index queries of the first
\* bucket fail; "blob" - the first GetObject fails; "cacheFetch",
\* "cacheStore" - that cache operation fails.
GetFaults == {"none", "kv", "blob", "cacheFetch", "cacheStore"}

\* metric.LabelMatcher.Match
Match(m, value) ==
    IF m.Type = "Equal" THEN value = m.Value ELSE value # m.Value

-----------------------------------------------------------------------------
(* Sorted chunk lists *)

\* ByID.Less
IDLess(a, b) == StrLess(a.ID, b.ID)

RECURSIVE insertByID(_, _)
insertByID(c, sorted) ==
    IF sorted = <<>> THEN <<c>>
    ELSE IF IDLess(Head(sorted), c)
    THEN <<Head(sorted)>> \o insertByID(c, Tail(sorted))
    ELSE <<c>> \o sorted

\* sort.Sort(ByID(chunks))
RECURSIVE sortByID(_)
sortByID(chunks) ==
    IF chunks = <<>> THEN <<>>
    ELSE insertByID(Head(chunks), sortByID(Tail(chunks)))

\* unique: drops an element equal (by ID) to its predecessor.
RECURSIVE unique(_)
unique(chunks) ==
    IF Len(chunks) < 2 THEN chunks
    ELSE IF chunks[1].ID = chunks[2].ID
    THEN unique(Tail(chunks))
    ELSE <<Head(chunks)>> \o unique(Tail(chunks))

\* merge: the ordered union of two lists sorted by ID.
RECURSIVE merge(_, _)
merge(a, b) ==
    IF a = <<>> THEN b
    ELSE IF b = <<>> THEN a
    ELSE IF IDLess(Head(a), Head(b)) THEN <<Head(a)>> \o merge(Tail(a), b)
    ELSE IF IDLess(Head(b), Head(a)) THEN <<Head(b)>> \o merge(a, Tail(b))
    ELSE <<Head(a)>> \o merge(Tail(a), Tail(b))

\* The ordered intersection of two lists sorted by ID.
RECURSIVE intersect(_, _)
intersect(a, b) ==
    IF a = <<>> \/ b = <<>> THEN <<>>
    ELSE IF IDLess(Head(a), Head(b)) THEN intersect(Tail(a), b)
    ELSE IF IDLess(Head(b), Head(a)) THEN intersect(a, Tail(b))
    ELSE <<Head(a)>> \o intersect(Tail(a), Tail(b))

RECURSIVE nWayIntersect(_)
nWayIntersect(sets) ==
    IF sets = <<>> THEN <<>>
    ELSE IF Len(sets) = 1 THEN sets[1]
    ELSE intersect(sets[1], nWayIntersect(Tail(sets)))

-----------------------------------------------------------------------------
(* Blob store, cache and KV store *)

\* Rows a page of a KV query holds at most.
PageSize == 2

Keys(objects) == {o.key : o \in objects}

\* PutObject / cache store: the object under a key is replaced.
StoreObject(objects, key, chunk) ==
    {o \in objects : o.key # key} \cup {[key |-> key, body |-> chunk]}

ObjectAt(objects, key) == (CHOOSE o \in objects : o.key = key).body

\* Byte order of two encoded range values.
RECURSIVE RangeLess(_, _)
RangeLess(a, b) ==
    IF a = <<>> THEN b # <<>>
    ELSE IF b = <<>> THEN FALSE
    ELSE IF Head(a) = Head(b) THEN RangeLess(Tail(a), Tail(b))
    ELSE StrLess(Head(a), Head(b))

RECURSIVE RowsInOrder(_)
RowsInOrder(rows) ==
    IF rows = {} THEN <<>>
    ELSE LET first == CHOOSE x \in rows :
                          \A y \in rows \ {x} : RangeLess(x.r, y.r)
         IN  <<first>> \o RowsInOrder(rows \ {first})

\* The items of a Query with KeyConditions h EQ hash and r BEGINS_WITH prefix
\* (no range condition when prefix is empty), in range-key order.
QueryItems(table, hash, prefix) ==
    RowsInOrder({row \in index :
                    row.t = table /\ row.h = hash /\ BeginsWith(row.r, prefix)})

\* The pages the KV store delivers the items in: at least one page, each
\* page but the last one full.
RECURSIVE Pages(_)
Pages(items) ==
    IF Len(items) <= PageSize THEN <<items>>
    ELSE <<SubSeq(items, 1, PageSize)>>
         \o Pages(SubSeq(items, PageSize + 1, Len(items)))

\* batchWriteDynamo once every request has been processed.
WriteRows(rows, writeReqs) == rows \cup {writeReqs[i] : i \in DOMAIN writeReqs}

-----------------------------------------------------------------------------
(* Put *)

\* putChunks: nil when every blob write succeeded, else a blob error.
putChunks_mutLastResult(chunks, blobFail) ==
    IF Len(chunks) \in blobFail THEN "ErrBlobIO" ELSE "none"

putChunks(chunks, blobFail) ==
    IF blobFail # {} THEN "ErrBlobIO" ELSE "none"

\* The labels of a metric in some order (Go ranges over the map in an
\* unspecified order; nothing depends on it).
RECURSIVE LabelSeq(_)
LabelSeq(labels) ==
    IF labels = {} THEN <<>>
    ELSE LET l == CHOOSE x \in labels : \A y \in labels \ {x} : StrLess(x, y)
         IN  <<l>> \o LabelSeq(labels \ {l})

\* The inner loop of calculateDynamoWrites: one row per label but __name__.
RECURSIVE labelWrites(_, _, _, _)
labelWrites(bucket, hash, chunk, labels) ==
    IF labels = <<>> THEN <<>>
    ELSE <<[t |-> bucket.tableName,
            h |-> hash,
            r |-> rangeValue(Head(labels), chunk.Metric[Head(labels)], chunk.ID)]>>
         \o labelWrites(bucket, hash, chunk, Tail(labels))

\* The bucket loop of calculateDynamoWrites for one chunk.
RECURSIVE bucketWrites(_, _, _)
bucketWrites(userID, chunk, buckets) ==
    IF buckets = <<>> THEN <<>>
    ELSE labelWrites(Head(buckets),
                     hashValue(userID, Head(buckets).bucket,
                               chunk.Metric[MetricNameLabel]),
                     chunk,
                     LabelSeq(Labels(chunk.Metric) \ {MetricNameLabel}))
         \o bucketWrites(userID, chunk, Tail(buckets))

chunkWrites_mutFirstBucket(userID, chunk) ==
    bucketWrites(userID, chunk,
                 SubSeq(bigBuckets(cfg, chunk.From, chunk.Through), 1, 1))

chunkWrites(userID, chunk) ==
    bucketWrites(userID, chunk, bigBuckets(cfg, chunk.From, chunk.Through))

RECURSIVE allWrites(_, _)
allWrites(userID, chunks) ==
    IF chunks = <<>> THEN <<>>
    ELSE chunkWrites(userID, Head(chunks)) \o allWrites(userID, Tail(chunks))

\* calculateDynamoWrites: the write requests (each with its table), or an
\* error and no request when some chunk has no __name__.
calculateDynamoWrites(userID, chunks) ==
    IF \E i \in DOMAIN chunks : MetricNameLabel \notin Labels(chunks[i].Metric)
    THEN [writeReqs |-> <<>>, err |-> "ErrNoMetricName"]
    ELSE [writeReqs |-> allWrites(userID, chunks), err |-> "none"]

\* The blobs (or cache entries) of the chunks at the given positions.
RECURSIVE StoreAll(_, _, _, _)
StoreAll(objects, userID, chunks, positions) ==
    IF positions = {} THEN objects
    ELSE LET i == CHOOSE i \in positions : TRUE
         IN  StoreAll(StoreObject(objects, chunkName(userID, chunks[i].ID), chunks[i]),
                      userID, chunks, positions \ {i})

\* The positions of the chunks whose PutObject fails under the fault.
blobFailures(fault) ==
    IF fault = "blob1" THEN {1} ELSE IF fault = "blob2" THEN {2} ELSE {}

\* The requests Put hands to batchWriteDynamo: none unless the tenant is
\* known, every blob was written and the writes could be calculated.
submittedWrites(userID, blobErr, calc) ==
    IF userID # NoTenant /\ blobErr = "none" /\ calc.err = "none"
    THEN calc.writeReqs ELSE <<>>

\* The error Put returns.
putError(userID, blobErr, calc, fault) ==
    IF userID = NoTenant THEN "ErrNoTenant"
    ELSE IF blobErr # "none" THEN blobErr
    ELSE IF calc.err # "none" THEN calc.err
    ELSE IF fault = "kv" THEN "ErrKVIO"
    ELSE "none"

\* The effect of Put once its blob writes returned blobErr and its index
\* writes were submitted with result err.
putEffect(userID, chunks, fault, stored, submitted, err) ==
    /\ nPuts' = nPuts + 1
    /\ s3' = IF userID = NoTenant THEN s3
             ELSE StoreAll(s3, userID, chunks, stored)
    /\ cache' = IF userID = NoTenant \/ ~cfg.ChunkCache \/ fault = "cache" THEN cache
                ELSE StoreAll(cache, userID, chunks, stored)
    /\ index' = IF err = "none" THEN WriteRows(index, submitted) ELSE index
    \* repeat: this call repeats the previous, successful call and succeeds;
    \* sameStore: it left the blob store and the index as they were.
    /\ put' = [userID |-> userID, chunks |-> chunks, fault |-> fault,
               err |-> err,
               writeReqs |-> submitted, blobFailed |-> DOMAIN chunks \ stored,
               repeat |-> /\ err = "none" /\ put.err = "none"
                          /\ put.userID = userID /\ put.chunks = chunks,
               sameStore |-> s3' = s3 /\ index' = index]
    /\ get' = NoGet
    /\ UNCHANGED <<cfg, lookVars, planVars, fanVars, rulerVars>>

putIndexed(userID, chunks, fault, blobErr, calc) ==
    putEffect(userID, chunks, fault, DOMAIN chunks \ blobFailures(fault),
              submittedWrites(userID, blobErr, calc),
              putError(userID, blobErr, calc, fault))

\* Put(ctx, chunks) under the given fault.
Put(userID, chunks, fault) ==
    /\ nPuts < MaxPuts
    /\ wr = NoPlan /\ rd = NoPlan
    /\ fault = "cache" => cfg.ChunkCache
    /\ putIndexed(userID, chunks, fault,
                  putChunks(chunks, blobFailures(fault)),
                  calculateDynamoWrites(userID, chunks))

-----------------------------------------------------------------------------
(* Get *)

\* A nil *metric.LabelMatcher.
NoMatcher == Matcher("nil", "", "")

\* extractMetricName: the value of the first __name__ matcher, which must be
\* an equality matcher, and the matchers without it.  The matchers are
\* removed in place: copy(matchers[i:], matchers[i+1:]) moves the elements
\* after i one place down in the array of the slice that was passed in, whose
\* last element stays; "array" is that array after the call.
RECURSIVE extractMetricName(_, _)
extractMetricName(matchers, i) ==
    IF i > Len(matchers)
    THEN [metricName |-> "", matchers |-> <<>>, err |-> "ErrNoMetricName",
          array |-> matchers]
    ELSE IF matchers[i].Name # MetricNameLabel
    THEN extractMetricName(matchers, i + 1)
    ELSE IF matchers[i].Type # "Equal"
    THEN [metricName |-> "", matchers |-> <<>>, err |-> "ErrMatcherTypeForMetricName",
          array |-> matchers]
    ELSE [metricName |-> matchers[i].Value,
          matchers   |-> SubSeq(matchers, 1, i - 1)
                         \o SubSeq(matchers, i + 1, Len(matchers)),
          err        |-> "none",
          array      |-> SubSeq(matchers, 1, i - 1)
                         \o SubSeq(matchers, i + 1, Len(matchers))
                         \o <<matchers[Len(matchers)]>>]

processItem_mutKeepUnmatched(acc, item, matcher) ==
    IF Len(item.r) # 3
    THEN [acc EXCEPT !.err = "ErrIndexDecode", !.stop = TRUE]
    ELSE [acc EXCEPT !.chunkSet = Append(@, [ID |-> item.r[3]])]

\* processResponse after parseRangeValue: a malformed item ends the loop
\* with an error, an item the matcher rejects is dropped, any other item
\* adds Chunk{ID: chunkID}.
processParsed(acc, parsed, matcher) ==
    IF parsed.err # "none"
    THEN [acc EXCEPT !.err = parsed.err, !.stop = TRUE]
    ELSE IF /\ matcher # NoMatcher
            /\ (parsed.label # matcher.Name \/ ~Match(matcher, parsed.value))
    THEN [acc EXCEPT !.dropped = @ + 1]
    ELSE [acc EXCEPT !.chunkSet = Append(@, [ID |-> parsed.chunkID])]

\* The body of the loop of processResponse for one item.
processItem(acc, item, matcher) ==
    processParsed(acc, parseRangeValue(item.r), matcher)

RECURSIVE processItems(_, _, _)
processItems(acc, items, matcher) ==
    IF items = <<>> \/ acc.stop THEN acc
    ELSE processItems(processItem(acc, Head(items), matcher), Tail(items), matcher)

\* processResponse(resp, &chunkSet, matcher): appends to chunkSet and returns
\* the page's error.
processResponse(items, chunkSet, matcher) ==
    processItems([chunkSet |-> chunkSet, err |-> "none", dropped |-> 0,
                  stop |-> FALSE],
                 items, matcher)

\* queryPages with the visitor of lookupChunksForMetricName and
\* lookupChunksForMatcher: the visitor processes page i and asks for the next
\* page when processingError != nil && !lastPage.
RECURSIVE visitPages(_, _, _, _)

\* The visitor's return for page i, whose processing gave resp.
visited(pages, i, resp, matcher) ==
    IF resp.err # "none" /\ i # Len(pages)
    THEN visitPages(pages, i + 1, resp.chunkSet, matcher)
    ELSE [chunkSet |-> resp.chunkSet, processingError |-> resp.err]

visitPages(pages, i, chunkSet, matcher) ==
    visited(pages, i, processResponse(pages[i], chunkSet, matcher), matcher)

metricNameResult_mutNoUnique(seen, queryFails) ==
    IF queryFails THEN [chunks |-> <<>>, err |-> "ErrKVIO"]
    ELSE IF seen.processingError # "none"
    THEN [chunks |-> <<>>, err |-> seen.processingError]
    ELSE [chunks |-> sortByID(seen.chunkSet), err |-> "none"]

\* The return of lookupChunksForMetricName after queryPages.
metricNameResult(seen, queryFails) ==
    IF queryFails THEN [chunks |-> <<>>, err |-> "ErrKVIO"]
    ELSE IF seen.processingError # "none"
    THEN [chunks |-> <<>>, err |-> seen.processingError]
    ELSE [chunks |-> unique(sortByID(seen.chunkSet)), err |-> "none"]

lookupChunksForMetricName(userID, bucket, metricName, queryFails) ==
    metricNameResult(
        visitPages(Pages(QueryItems(bucket.tableName,
                                    hashValue(userID, bucket.bucket, metricName),
                                    <<>>)),
                   1, <<>>, NoMatcher),
        queryFails)

rangePrefix(matcher) ==
    IF matcher.Type = "Equal"
    THEN <<matcher.Name, matcher.Value>>
    ELSE <<matcher.Name>>

\* The return of lookupChunksForMatcher after queryPages.
matcherResult(seen, queryFails) ==
    IF queryFails THEN [chunks |-> <<>>, err |-> "ErrKVIO"]
    ELSE IF seen.processingError # "none"
    THEN [chunks |-> <<>>, err |-> seen.processingError]
    ELSE [chunks |-> sortByID(seen.chunkSet), err |-> "none"]

lookupChunksForMatcher(userID, bucket, metricName, matcher, queryFails) ==
    matcherResult(
        visitPages(Pages(QueryItems(bucket.tableName,
                                    hashValue(userID, bucket.bucket, metricName),
                                    rangePrefix(matcher))),
                   1, <<>>, matcher),
        queryFails)

\* The chunk sets of the matchers whose lookup succeeded.
RECURSIVE succeeded(_)
succeeded(results) ==
    IF results = <<>> THEN <<>>
    ELSE IF Head(results).err = "none"
    THEN <<Head(results).chunks>> \o succeeded(Tail(results))
    ELSE succeeded(Tail(results))

\* The error received last, when every failing task reports the same error.
lastError(results) ==
    IF \E i \in DOMAIN results : results[i].err # "none"
    THEN results[CHOOSE i \in DOMAIN results : results[i].err # "none"].err
    ELSE "none"

\* The return of lookupChunksFor once every matcher's lookup has reported.
intersected(results) ==
    [chunks |-> nWayIntersect(succeeded(results)), err |-> lastError(results)]

lookupChunksFor(userID, bucket, metricName, matchers, queryFails) ==
    IF Len(matchers) = 0
    THEN lookupChunksForMetricName(userID, bucket, metricName, queryFails)
    ELSE intersected([i \in DOMAIN matchers |->
                        lookupChunksForMatcher(userID, bucket, metricName,
                                               matchers[i], queryFails)])

RECURSIVE mergeAll(_)
mergeAll(sets) ==
    IF sets = <<>> THEN <<>>
    ELSE merge(mergeAll(Tail(sets)), Head(sets))

\* The time filter of lookupChunks.
InRange(id, from, through) ==
    LET bounds == parseChunkID(id)
    IN  ~(bounds.through < from \/ through < bounds.from)

RECURSIVE filterRange(_, _, _)
filterRange(chunks, from, through) ==
    IF chunks = <<>> THEN <<>>
    ELSE IF InRange(Head(chunks).ID, from, through)
    THEN <<Head(chunks)>> \o filterRange(Tail(chunks), from, through)
    ELSE filterRange(Tail(chunks), from, through)

\* The return of lookupChunks once every bucket's lookup has reported.
filtered(results, from, through) ==
    [chunks |-> filterRange(mergeAll(succeeded(results)), from, through),
     err    |-> lastError(results)]

lookupBuckets(userID, from, through, name, buckets, kvFail) ==
    IF name.err # "none"
    THEN [chunks |-> <<>>, err |-> name.err]
    ELSE filtered([i \in DOMAIN buckets |->
                      lookupChunksFor(userID, buckets[i], name.metricName,
                                      name.matchers, i \in kvFail)],
                  from, through)

\* lookupChunks.  kvFail: the positions of the buckets whose queries fail.
lookupChunks(userID, from, through, matchers, kvFail) ==
    lookupBuckets(userID, from, through, extractMetricName(matchers, 1),
                  bigBuckets(cfg, from, through), kvFail)

RECURSIVE selectSeq(_, _)
selectSeq(chunks, keep) ==
    IF chunks = <<>> THEN <<>>
    ELSE IF Head(chunks).ID \in keep
    THEN <<Head(chunks)>> \o selectSeq(Tail(chunks), keep)
    ELSE selectSeq(Tail(chunks), keep)

\* The stored chunk each listed chunk decodes to.
decodeAll(objects, userID, chunks) ==
    [i \in DOMAIN chunks |-> ObjectAt(objects, chunkName(userID, chunks[i].ID))]

\* Cache.FetchChunkData: the chunks found in the cache, decoded, and the
\* missing ones; on an error nothing is found and every chunk is missing.
FetchChunkData(userID, chunks, fetchFails) ==
    LET hits == IF fetchFails THEN {}
                ELSE {chunks[i].ID : i \in {j \in DOMAIN chunks :
                          chunkName(userID, chunks[j].ID) \in Keys(cache)}}
    IN  [found   |-> decodeAll(cache, userID, selectSeq(chunks, hits)),
         missing |-> selectSeq(chunks, {chunks[i].ID : i \in DOMAIN chunks} \ hits)]

\* fetchChunkData.  blobFail: the positions of chunkSet whose GetObject fails;
\* a GetObject of a key that is not in the blob store fails as well.
fetchChunkData(userID, chunkSet, blobFail) ==
    IF \E i \in DOMAIN chunkSet :
          i \in blobFail \/ chunkName(userID, chunkSet[i].ID) \notin Keys(s3)
    THEN [chunks |-> <<>>, err |-> "ErrBlobIO"]
    ELSE [chunks |-> decodeAll(s3, userID, chunkSet), err |-> "none"]

RECURSIVE StoreChunks(_, _, _)
StoreChunks(objects, userID, chunks) ==
    IF chunks = <<>> THEN objects
    ELSE StoreChunks(StoreObject(objects, chunkName(userID, Head(chunks).ID),
                                 Head(chunks)),
                     userID, Tail(chunks))

\* The error Get returns.
getError(userID, looked, fromS3) ==
    IF userID = NoTenant THEN "ErrNoTenant"
    ELSE IF looked.err # "none" THEN looked.err
    ELSE fromS3.err

\* The slice the caller passed to Get(..., matchers...) as the call leaves
\* it: Get passes it to lookupChunks, and lookupChunks to extractMetricName,
\* unless GetID failed.
callerSlice(userID, matchers) ==
    IF userID = NoTenant THEN matchers
    ELSE extractMetricName(matchers, 1).array

\* What the first of two calls with the same slice returned.
firstCall ==
    IF get.called
    THEN [called |-> TRUE, matchers |-> get.matchers, err |-> get.err,
          res |-> get.res]
    ELSE NoCall

getEffect_mutStoreErrorFails(userID, from, through, matchers, fault, looked, err, cached, fromS3) ==
    /\ cache' = cache
    /\ get' = [userID |-> userID, from |-> from, through |-> through,
               matchers |-> matchers, fault |-> fault,
               looked |-> looked.chunks, lookErr |-> looked.err,
               fromCache |-> cached.found, cacheSame |-> TRUE,
               err |-> IF err = "none" /\ fault = "cacheStore"
                       THEN "ErrCache" ELSE err,
               res |-> IF err = "none" /\ fault # "cacheStore"
                       THEN sortByID(cached.found \o fromS3.chunks) ELSE <<>>,
               called |-> TRUE,
               slice |-> callerSlice(userID, matchers), first |-> firstCall]
    /\ UNCHANGED <<cfg, lookVars, s3, index, put, nPuts, planVars, fanVars, rulerVars>>

\* The end of Get: the fetched chunks go to the cache, and the cached and
\* the fetched chunks are returned sorted by ID.
getEffect(userID, from, through, matchers, fault, looked, err, cached, fromS3) ==
    /\ cache' = IF err = "none" /\ cfg.ChunkCache /\ fault # "cacheStore"
                THEN StoreChunks(cache, userID, fromS3.chunks)
                ELSE cache
    /\ get' = [userID |-> userID, from |-> from, through |-> through,
               matchers |-> matchers, fault |-> fault,
               looked |-> looked.chunks, lookErr |-> looked.err,
               fromCache |-> cached.found, cacheSame |-> cache' = cache,
               err |-> err,
               res |-> IF err = "none"
                       THEN sortByID(cached.found \o fromS3.chunks) ELSE <<>>,
               called |-> TRUE,
               slice |-> callerSlice(userID, matchers), first |-> firstCall]
    /\ UNCHANGED <<cfg, lookVars, s3, index, put, nPuts, planVars, fanVars, rulerVars>>

getFetched(userID, from, through, matchers, fault, looked, cached, fromS3) ==
    getEffect(userID, from, through, matchers, fault, looked,
              getError(userID, looked, fromS3), cached, fromS3)

getCached(userID, from, through, matchers, fault, looked, cached) ==
    getFetched(userID, from, through, matchers, fault, looked, cached,
               fetchChunkData(userID, cached.missing,
                              IF fault = "blob" THEN {1} ELSE {}))

getLooked(userID, from, through, matchers, fault, looked) ==
    /\ fault # "none" => (userID # NoTenant /\ looked.err \in {"none", "ErrKVIO"})
    /\ getCached(userID, from, through, matchers, fault, looked,
                 IF cfg.ChunkCache
                 THEN FetchChunkData(userID, looked.chunks, fault = "cacheFetch")
                 ELSE [found |-> <<>>, missing |-> looked.chunks])

\* Get(ctx, from, through, matchers...) under the given fault.  One Get is
\* recorded after each Put.
Get(userID, from, through, matchers, fault) ==
    /\ nPuts > 0
    /\ ~get.called
    /\ wr = NoPlan /\ rd = NoPlan
    /\ fault \in {"cacheFetch", "cacheStore"} => cfg.ChunkCache
    /\ getLooked(userID, from, through, matchers, fault,
                 lookupChunks(userID, from, through, matchers,
                              IF fault = "kv" THEN {1} ELSE {}))

\* The caller of a Get that met no fault calls Get again with the same
\* slice, range and tenant.
GetAgain ==
    /\ get.called
    /\ ~get.first.called
    /\ get.fault = "none"
    /\ wr = NoPlan /\ rd = NoPlan
    /\ getLooked(get.userID, get.from, get.through, get.slice, "none",
                 lookupChunks(get.userID, get.from, get.through, get.slice, {}))

-----------------------------------------------------------------------------
(* The store *)

StoreConfigs ==
    {MkConfig(24 * H,
              [UsePeriodicTables |-> TRUE, PeriodicTableStartAt |-> H,
               TablePeriod |-> secondsInHour], FALSE),
     MkConfig(2 * H,
              [UsePeriodicTables |-> FALSE, PeriodicTableStartAt |-> 0,
               TablePeriod |-> secondsInDay], TRUE)}

Init ==
    /\ LookupIdle
    /\ cfg \in StoreConfigs
    /\ StoreIdle
    /\ wr = NoPlan
    /\ rd = NoPlan
    /\ FanIdle
    /\ RulerIdle

Next ==
    \/ \E call \in PutCalls : Put(call.userID, call.chunks, call.fault)
    \/ \E call \in GetCalls, fault \in GetFaults :
          Get(call.userID, call.from, call.through, call.matchers, fault)
    \/ GetAgain

Spec == Init /\ [][Next]_vars

-----------------------------------------------------------------------------
(* The fan-out sites: putChunks, fetchChunkData, lookupChunks and          *)
(* lookupChunksFor spawn one goroutine per element, collect one message    *)
(* per goroutine from unbuffered channels and return an aggregate.         *)

\* Goroutines a call spawns.
MaxTasks == 3

FanSites == {"putChunks", "fetchChunkData", "lookupChunks", "lookupChunksFor"}

\* The errors a task can report: putChunk fails in chunk.reader or in
\* PutObject, a fetch in GetObject or in chunk.decode, a lookup in queryPages
\* or in processResponse.
TaskErrors(site) ==
    IF site = "putChunks" THEN {"ErrChunkEncode", "ErrBlobIO"}
    ELSE IF site = "fetchChunkData" THEN {"ErrBlobIO", "ErrChunkDecode"}
    ELSE {"ErrKVIO", "ErrIndexDecode"}

TaskOutcomes(site) == {"ok"} \cup TaskErrors(site)

\* The store config with a chunk cache.
CachedConfig == CHOOSE c \in StoreConfigs : c.ChunkCache

InitFan ==
    /\ LookupIdle
    /\ cfg = CachedConfig
    /\ StoreIdle
    /\ wr = NoPlan
    /\ rd = NoPlan
    /\ RulerIdle
    /\ fanSite \in FanSites
    /\ \E n \in 0..MaxTasks :
          fanTasks \in [1..n -> [pc : {"running"}, out : TaskOutcomes(fanSite)]]
    /\ fanRecv = <<>>
    /\ fanRet = NoReturn
    /\ fanOp = NoReturn
    /\ ctxDone = "no"

\* The goroutine of task i has made its call (putChunk; GetObject and
\* decode; lookupChunksFor; lookupChunksForMatcher) and reaches its send.
TaskCall(i) ==
    /\ fanTasks[i].pc = "running"
    /\ fanTasks' = [fanTasks EXCEPT ![i].pc = "sending"]
    /\ UNCHANGED <<cfg, lookVars, storeVars, planVars, rulerVars,
                   fanSite, fanRecv, fanRet, fanOp, ctxDone>>

loopEnds_mutFirstError(recv, tasks) ==
    \/ Len(recv) = Len(tasks)
    \/ \E k \in DOMAIN recv : recv[k].out # "ok"

\* The condition that ends the collecting loop: one iteration per task.
loopEnds(recv, tasks) == Len(recv) = Len(tasks)

\* One iteration of the collecting loop: its receive (a select over both
\* channels where there are two) meets the send of task i.
Receive(i) ==
    /\ ~fanRet.returned
    /\ ~loopEnds(fanRecv, fanTasks)
    /\ fanTasks[i].pc = "sending"
    /\ fanRecv' = Append(fanRecv, [task |-> i, out |-> fanTasks[i].out])
    /\ fanTasks' = [fanTasks EXCEPT ![i].pc = "done"]
    /\ UNCHANGED <<cfg, lookVars, storeVars, planVars, rulerVars,
                   fanSite, fanRet, fanOp, ctxDone>>

RECURSIVE errorsOf(_)
errorsOf(msgs) ==
    IF msgs = <<>> THEN <<>>
    ELSE IF Head(msgs).out # "ok" THEN <<Head(msgs).out>> \o errorsOf(Tail(msgs))
    ELSE errorsOf(Tail(msgs))

\* The tasks whose value was received, in the order of reception.
RECURSIVE valuesOf(_)
valuesOf(msgs) ==
    IF msgs = <<>> THEN <<>>
    ELSE IF Head(msgs).out = "ok" THEN <<Head(msgs).task>> \o valuesOf(Tail(msgs))
    ELSE valuesOf(Tail(msgs))

lastErr_mutFirst(msgs) ==
    IF errorsOf(msgs) = <<>> THEN "none" ELSE errorsOf(msgs)[1]

\* var lastErr error; if err != nil { lastErr = err }
lastErr(msgs) ==
    IF errorsOf(msgs) = <<>> THEN "none"
    ELSE errorsOf(msgs)[Len(errorsOf(msgs))]

putChunksReturn(msgs) ==
    [returned |-> TRUE, err |-> lastErr(msgs), values |-> <<>>]

fetchChunkDataReturn_mutLastError(msgs) ==
    IF Len(errorsOf(msgs)) > 0
    THEN [returned |-> TRUE, err |-> errorsOf(msgs)[Len(errorsOf(msgs))],
          values |-> <<>>]
    ELSE [returned |-> TRUE, err |-> "none", values |-> valuesOf(msgs)]

\* if len(errors) > 0 { return nil, errors[0] }; return chunks, nil
fetchChunkDataReturn(msgs) ==
    IF Len(errorsOf(msgs)) > 0
    THEN [returned |-> TRUE, err |-> errorsOf(msgs)[1], values |-> <<>>]
    ELSE [returned |-> TRUE, err |-> "none", values |-> valuesOf(msgs)]

\* lookupChunks and lookupChunksFor return the merge (intersection) of the
\* received chunk sets together with lastErr.
lookupReturn(msgs) ==
    [returned |-> TRUE, err |-> lastErr(msgs), values |-> valuesOf(msgs)]

\* The collecting loop has run once per task and the function returns.
FanReturn ==
    /\ ~fanRet.returned
    /\ loopEnds(fanRecv, fanTasks)
    /\ fanRet' = IF fanSite = "putChunks" THEN putChunksReturn(fanRecv)
                 ELSE IF fanSite = "fetchChunkData" THEN fetchChunkDataReturn(fanRecv)
                 ELSE lookupReturn(fanRecv)
    /\ UNCHANGED <<cfg, lookVars, storeVars, planVars, rulerVars,
                   fanSite, fanTasks, fanRecv, fanOp, ctxDone>>

\* Put after putChunks: the blob error, else the result of updateIndex.
putReturn(ret, indexErr) ==
    [returned |-> TRUE,
     err      |-> IF ret.err # "none" THEN ret.err ELSE indexErr,
     res      |-> <<>>,
     inner    |-> indexErr,
     stored   |-> FALSE]

\* Get after fetchChunkData: nil and the error, else the fetched chunks,
\* which are first written to the cache.
getReturn(ret) ==
    [returned |-> TRUE,
     err      |-> ret.err,
     res      |-> IF ret.err # "none" THEN <<>> ELSE ret.values,
     inner    |-> "none",
     stored   |-> ret.err = "none" /\ cfg.ChunkCache]

\* The caller of a lookup: Get returns nil and the error of lookupChunks,
\* and a task of lookupChunks sends the error of lookupChunksFor or else
\* its chunk set.
lookedReturn(ret) ==
    [returned |-> TRUE,
     err      |-> ret.err,
     res      |-> IF ret.err # "none" THEN <<>> ELSE ret.values,
     inner    |-> "none",
     stored   |-> FALSE]

\* The results batchWriteDynamo(ctx, ...) can give; the KV client may look
\* at the context.
IndexResults ==
    {"none", "ErrKVIO"} \cup (IF ctxDone = "no" THEN {} ELSE {"ErrCancelled"})

\* The calling operation returns.
OpReturn(indexErr) ==
    /\ fanRet.returned
    /\ ~fanOp.returned
    /\ (fanSite # "putChunks" \/ fanRet.err # "none") => indexErr = "none"
    /\ fanOp' = IF fanSite = "putChunks" THEN putReturn(fanRet, indexErr)
                ELSE IF fanSite = "fetchChunkData" THEN getReturn(fanRet)
                ELSE lookedReturn(fanRet)
    /\ UNCHANGED <<cfg, lookVars, storeVars, planVars, rulerVars,
                   fanSite, fanTasks, fanRecv, fanRet, ctxDone>>

\* The request context is cancelled, while the collecting loop waits for a
\* task or after it has collected them all.  No fan-out site reads
\* ctx.Done().
Cancel ==
    /\ ctxDone = "no"
    /\ ~fanOp.returned
    /\ ctxDone' = IF Len(fanRecv) < Len(fanTasks) THEN "waiting" ELSE "collected"
    /\ UNCHANGED <<cfg, lookVars, storeVars, planVars, rulerVars,
                   fanSite, fanTasks, fanRecv, fanRet, fanOp>>

NextFan ==
    \/ \E i \in DOMAIN fanTasks : TaskCall(i)
    \/ \E i \in DOMAIN fanTasks : Receive(i)
    \/ FanReturn
    \/ \E indexErr \in IndexResults : OpReturn(indexErr)
    \/ Cancel

SpecFan == InitFan /\ [][NextFan]_vars

-----------------------------------------------------------------------------
(* The ruler: Server, its workers and the scheduler they pull from *)

\* Workers of a server (Config.NumWorkers is at least 1).
MaxWorkers == 2

\* The clock stops here.
MaxClock == 3

\* Config.EvaluationInterval, in clock ticks.
EvaluationInterval == 2

NoItem == [userID |-> "", due |-> -1]

\* newWorker: scheduler and ruler are set; done and terminated are left nil.
newWorker ==
    [pc |-> "new", item |-> NoItem, pending |-> {},
     done |-> "nil", terminated |-> "nil"]

\* NewServer, with either worker.Run.
InitRuler ==
    /\ LookupIdle
    /\ cfg = CachedConfig
    /\ StoreIdle
    /\ wr = NoPlan
    /\ rd = NoPlan
    /\ FanIdle
    /\ server \in {[ran |-> FALSE, stop |-> "idle", acks |-> a] : a \in BOOLEAN}
    /\ \E n \in 1..MaxWorkers : workers = [i \in 1..n |-> newWorker]
    /\ sched = NoScheduler
    /\ clock = 0

\* A panic ends the process.
Alive ==
    /\ server.stop # "panicked"
    /\ \A i \in DOMAIN workers : workers[i].pc # "panicked"

\* Server.Run: go s.scheduler.Run() and go w.Run() for every worker.  The
\* goroutines share the loop variable w; every value it takes holds the same
\* scheduler, ruler and nil channels.
Run ==
    /\ Alive
    /\ ~server.ran
    /\ server' = [server EXCEPT !.ran = TRUE]
    /\ workers' = [i \in DOMAIN workers |-> [workers[i] EXCEPT !.pc = "select"]]
    /\ UNCHANGED <<cfg, lookVars, storeVars, planVars, fanVars, sched, clock>>

\* scheduler.Run on a poll tick: every tenant that is neither queued nor
\* in flight is enqueued, due now.
Poll ==
    /\ Alive
    /\ server.ran
    /\ ~sched.closed
    /\ \E u \in Tenants :
          u \notin sched.inflight /\ \A it \in sched.queue : it.userID # u
    /\ sched' = [sched EXCEPT !.queue =
                    @ \cup {[userID |-> u, due |-> clock] :
                               u \in {t \in Tenants :
                                         /\ t \notin sched.inflight
                                         /\ \A it \in sched.queue : it.userID # t}}]
    /\ UNCHANGED <<cfg, lookVars, storeVars, planVars, fanVars, server, workers, clock>>

Tick ==
    /\ Alive
    /\ server.ran
    /\ clock < MaxClock
    /\ clock' = clock + 1
    /\ UNCHANGED <<cfg, lookVars, storeVars, planVars, fanVars, server, workers, sched>>

runOrder_mutAckFirst(acks) == <<"select", "next", "workItemDone", "evaluate">>

\* The statements of one iteration of the loop of worker.Run.
runOrder(acks) ==
    IF acks THEN <<"select", "next", "evaluate", "workItemDone">>
    ELSE <<"select", "next", "evaluate">>

\* The statement after statement pc of the loop.
following(pc) ==
    LET order == runOrder(server.acks)
        k     == CHOOSE k \in DOMAIN order : order[k] = pc
    IN  order[(k % Len(order)) + 1]

\* A worker after one statement of its loop; item is local to an iteration.
advance(w) ==
    IF following(w.pc) = "select"
    THEN [w EXCEPT !.pc = "select", !.item = NoItem]
    ELSE [w EXCEPT !.pc = following(w.pc)]

\* return from worker.Run: the deferred close(w.terminated) panics on a nil
\* or closed channel.
exit(w) ==
    IF w.terminated = "open"
    THEN [w EXCEPT !.pc = "exited", !.item = NoItem, !.terminated = "closed"]
    ELSE [w EXCEPT !.pc = "panicked"]

\* select { case <-w.done: return; default: }.  A receive from a nil channel
\* is never ready.
SelectDone(i) ==
    /\ Alive
    /\ workers[i].pc = "select"
    /\ workers' = [workers EXCEPT ![i] = IF workers[i].done = "closed"
                                         THEN exit(@) ELSE advance(@)]
    /\ UNCHANGED <<cfg, lookVars, storeVars, planVars, fanVars, server, sched, clock>>

\* The heads of the queue that are due.
DueHeads ==
    {it \in sched.queue :
        it.due <= clock /\ \A other \in sched.queue : it.due <= other.due}

\* item := w.scheduler.nextWorkItem(time.Now()): blocks until the head of the
\* queue is due or the queue is closed; nil on close, else the head, which
\* becomes in flight.
NextWorkItem(i) ==
    /\ Alive
    /\ workers[i].pc = "next"
    /\ IF sched.closed
       THEN /\ workers' = [workers EXCEPT ![i] = exit(@)]
            /\ sched' = sched
       ELSE \E it \in DueHeads :
               /\ workers' = [workers EXCEPT ![i] =
                                 advance([@ EXCEPT !.item = it,
                                                   !.pending = @ \cup {it.userID}])]
               /\ sched' = [sched EXCEPT !.queue = @ \ {it},
                                         !.inflight = @ \cup {it.userID}]
    /\ UNCHANGED <<cfg, lookVars, storeVars, planVars, fanVars, server, clock>>

\* w.ruler.Evaluate(ctx, item.rules)
Evaluate(i) ==
    /\ Alive
    /\ workers[i].pc = "evaluate"
    /\ workers' = [workers EXCEPT ![i] = advance(@)]
    /\ UNCHANGED <<cfg, lookVars, storeVars, planVars, fanVars, server, sched, clock>>

Max(a, b) == IF a > b THEN a ELSE b

\* w.scheduler.workItemDone(*item): the item is no longer in flight and is
\* queued again, due at max(now, item.due + EvaluationInterval).
WorkItemDone(i) ==
    /\ Alive
    /\ workers[i].pc = "workItemDone"
    /\ workers' = [workers EXCEPT ![i] =
                      advance([@ EXCEPT !.pending = @ \ {workers[i].item.userID}])]
    /\ sched' = [sched EXCEPT
                    !.inflight = @ \ {workers[i].item.userID},
                    !.queue = @ \cup {[userID |-> workers[i].item.userID,
                                       due |-> Max(clock, workers[i].item.due
                                                          + EvaluationInterval)]}]
    /\ UNCHANGED <<cfg, lookVars, storeVars, planVars, fanVars, server, clock>>

\* worker.Stop: close(w.done) panics on a nil or closed channel; otherwise it
\* waits for w.terminated.
stopWorker(w) ==
    IF w.done = "open" THEN [w EXCEPT !.done = "closed"]
    ELSE [w EXCEPT !.pc = "panicked"]

\* Server.Stop up to the first statement that blocks or panics: w.Stop() of
\* the first worker.
Stop ==
    /\ Alive
    /\ server.ran
    /\ server.stop = "idle"
    /\ server' = [server EXCEPT !.stop = IF stopWorker(workers[1]).pc = "panicked"
                                         THEN "panicked" ELSE "stopping"]
    /\ workers' = [workers EXCEPT ![1].done = stopWorker(workers[1]).done]
    /\ UNCHANGED <<cfg, lookVars, storeVars, planVars, fanVars, sched, clock>>

NextRuler ==
    \/ Run
    \/ Poll
    \/ Tick
    \/ \E i \in DOMAIN workers : SelectDone(i)
    \/ \E i \in DOMAIN workers : NextWorkItem(i)
    \/ \E i \in DOMAIN workers : Evaluate(i)
    \/ \E i \in DOMAIN workers : WorkItemDone(i)
    \/ Stop

SpecRuler == InitRuler /\ [][NextRuler]_vars

\* The Go scheduler runs every goroutine that can take a step: the caller of
\* Run and Stop, the scheduler's loop and the workers.
SpecRulerFair == SpecRuler /\ WF_vars(NextRuler)

-----------------------------------------------------------------------------
(* Per-bucket lookups over an index that several tenants, and writers       *)
(* other than this store, have written to.                                  *)

\* Tenant IDs are arbitrary strings.
LookupTenants == {"u1", "u1:0"}

\* Metric names may contain ':'.
LookupNames == {"up", "0:up"}

LookupChunks == {cA, cB, cAX}

LookupMatchers ==
    {<<>>, <<Matcher("Equal", "job", "A")>>, <<Matcher("NotEqual", "job", "A")>>}

\* Rows whose range value does not decode to three strings, at the start,
\* in the middle and at the end of the rows of their hash key.
MalformedRows ==
    {[t |-> "cortex", h |-> "u1:0:up", r |-> r] :
        r \in {<<"inst">>, <<"job", "B">>, <<"job", "X">>}}

\* The store config without a chunk cache: hourly buckets.
LookupConfig == CHOOSE c \in StoreConfigs : ~c.ChunkCache

LookupBuckets ==
    {bigBuckets(LookupConfig, 0, H + 500)[i] :
        i \in DOMAIN bigBuckets(LookupConfig, 0, H + 500)}

InitLookup ==
    /\ cfg = LookupConfig
    /\ StoreIdle
    /\ wr = NoPlan
    /\ rd = NoPlan
    /\ FanIdle
    /\ RulerIdle
    /\ LookupIdle

\* The effect of updateIndex with the given write requests.
indexed(userID, writeReqs) ==
    /\ index' = WriteRows(index, writeReqs)
    /\ writers' = writers \cup {[userID |-> userID, row |-> writeReqs[i]] :
                                   i \in DOMAIN writeReqs}

\* updateIndex(ctx, userID, [chunk]).
IndexChunk(userID, chunk) ==
    /\ ~lookup.called
    /\ indexed(userID, calculateDynamoWrites(userID, <<chunk>>).writeReqs)
    /\ UNCHANGED <<cfg, s3, cache, put, get, nPuts, planVars, fanVars,
                   rulerVars, lookup>>

\* Another writer of the table puts a row.
WriteForeign(row) ==
    /\ ~lookup.called
    /\ row \notin index
    /\ index' = index \cup {row}
    /\ UNCHANGED <<cfg, s3, cache, put, get, nPuts, planVars, fanVars,
                   rulerVars, lookVars>>

\* The items of the query of a lookup with at most one matcher.
lookupItems(userID, bucket, metricName, matchers) ==
    QueryItems(bucket.tableName, hashValue(userID, bucket.bucket, metricName),
               IF matchers = <<>> THEN <<>> ELSE rangePrefix(matchers[1]))

lookupDone(userID, bucket, metricName, matchers, items, result) ==
    /\ lookup' = [called |-> TRUE, userID |-> userID, bucket |-> bucket,
                  metricName |-> metricName, matchers |-> matchers,
                  items |-> items, chunks |-> result.chunks, err |-> result.err]
    /\ UNCHANGED <<cfg, storeVars, planVars, fanVars, rulerVars, writers>>

\* lookupChunksFor(ctx, userID, bucket, metricName, matchers) with no or
\* one matcher: lookupChunksForMetricName or lookupChunksForMatcher.
Lookup(userID, bucket, metricName, matchers) ==
    /\ ~lookup.called
    /\ index # {}
    /\ lookupDone(userID, bucket, metricName, matchers,
                  lookupItems(userID, bucket, metricName, matchers),
                  lookupChunksFor(userID, bucket, metricName, matchers, FALSE))

NextLookup ==
    \/ \E userID \in LookupTenants, chunk \in LookupChunks :
          IndexChunk(userID, chunk)
    \/ \E row \in MalformedRows : WriteForeign(row)
    \/ \E userID \in LookupTenants, bucket \in LookupBuckets,
          metricName \in LookupNames, matchers \in LookupMatchers :
          Lookup(userID, bucket, metricName, matchers)

SpecLookup == InitLookup /\ [][NextLookup]_vars

-----------------------------------------------------------------------------
(* Properties of Put and Get (checked under Spec) *)

HasName(c) == MetricNameLabel \in Labels(c.Metric)

NameMatcherOf(c) == Matcher("Equal", MetricNameLabel, c.Metric[MetricNameLabel])

ElemsOf(seq) == {seq[i] : i \in DOMAIN seq}

\* The last Get succeeded and asked for exactly chunk c's name and range on
\* behalf of the tenant of the last Put.
GotBack(c) ==
    /\ get.called /\ get.err = "none"
    /\ get.userID = put.userID
    /\ get.from = c.From /\ get.through = c.Through
    /\ get.matchers = <<NameMatcherOf(c)>>

\* C1: starting from an empty store, after a successful Put([c]) of a chunk
\* with a __name__ label and From <= Through, Get over [c.From, c.Through]
\* with the matcher __name__ = c's name returns exactly [c].
C1_RoundTrip ==
    \A c \in Chunks :
        (/\ nPuts = 1 /\ put.err = "none" /\ put.chunks = <<c>>
         /\ HasName(c) /\ c.From <= c.Through
         /\ GotBack(c))
        => get.res = <<c>>

\* The matchers of the last Get other than the __name__ matcher.
FurtherMatchers == {m \in ElemsOf(get.matchers) : m.Name # MetricNameLabel}

Accepts(m, c) == m.Name \in Labels(c.Metric) /\ Match(m, c.Metric[m.Name])

\* C2: every chunk a Get returns carries, for each matcher besides the
\* __name__ matcher, a label of the matcher's name with a value the matcher
\* accepts.
C2_Selectivity ==
    (get.called /\ get.err = "none") =>
        \A c \in ElemsOf(get.res) : \A m \in FurtherMatchers : Accepts(m, c)

\* The chunk's blob and all its index rows are in the stores, for the tenant.
Stored(userID, c) ==
    /\ HasName(c)
    /\ \E o \in s3 : o.key = userID \o "/" \o c.ID /\ o.body = c
    /\ \A b \in ElemsOf(bigBuckets(cfg, c.From, c.Through)) :
          \A l \in Labels(c.Metric) \ {MetricNameLabel} :
             [t |-> b.tableName,
              h |-> userID \o ":" \o b.bucket \o ":" \o c.Metric[MetricNameLabel],
              r |-> <<l, c.Metric[l], c.ID>>] \in index

Overlaps(c, from, through) == ~(c.Through < from \/ c.From > through)

\* cA and cB share __name__ and differ in job; both are stored and in the
\* queried range, and a Get filtered by job = "A" returned cA alone.
C2_Witness ==
    /\ get.called /\ get.err = "none"
    /\ get.matchers = <<NameIsUp, Matcher("Equal", "job", "A")>>
    /\ Stored(get.userID, cA) /\ Stored(get.userID, cB)
    /\ Overlaps(cA, get.from, get.through)
    /\ Overlaps(cB, get.from, get.through)
    /\ get.res = <<cA>>

SatisfiesMatchers(c) ==
    /\ HasName(c)
    /\ \A m \in ElemsOf(get.matchers) : Accepts(m, c)

\* C3: a stored chunk that satisfies the matchers is returned by a
\* successful Get if and only if its bounds overlap [from, through].
C3_TimeFilter ==
    (get.called /\ get.err = "none") =>
        \A c \in Chunks :
            (Stored(get.userID, c) /\ SatisfiesMatchers(c)) =>
                (c \in ElemsOf(get.res) <=> Overlaps(c, get.from, get.through))

\* C3 for the chunks that have a label besides __name__ (and so have index
\* rows): still not an equivalence, because a lookup reads only the first
\* page of its query.
C3_TimeFilterLabelled ==
    (get.called /\ get.err = "none") =>
        \A c \in Chunks :
            (/\ Stored(get.userID, c) /\ SatisfiesMatchers(c)
             /\ Labels(c.Metric) # {MetricNameLabel}) =>
                (c \in ElemsOf(get.res) <=> Overlaps(c, get.from, get.through))

\* The direction of C3 that holds: no chunk outside [from, through] is
\* returned.
C3_OnlyOverlapping ==
    (get.called /\ get.err = "none") =>
        \A c \in ElemsOf(get.res) : Overlaps(c, get.from, get.through)

\* C4: a Put in which some blob write failed submits no index write.
C4_NoIndexAfterBlobFailure ==
    put.blobFailed # {} => (put.writeReqs = <<>> /\ put.err = "ErrBlobIO")

\* The second blob write failed, the first chunk's blob was written, and
\* nothing was submitted to the index.
C4_Witness ==
    /\ put.blobFailed = {2}
    /\ put.chunks = <<cA, cB>>
    /\ \E o \in s3 : o.key = put.userID \o "/" \o cA.ID
    /\ put.writeReqs = <<>>
    /\ index = {}

\* The index rows the spec asks for chunk c of tenant userID.
EntriesOf(userID, c) ==
    {[t |-> b.tableName,
      h |-> userID \o ":" \o b.bucket \o ":" \o c.Metric[MetricNameLabel],
      r |-> <<l, c.Metric[l], c.ID>>] :
        b \in ElemsOf(bigBuckets(cfg, c.From, c.Through)),
        l \in Labels(c.Metric) \ {MetricNameLabel}}

\* The submitted write requests hold each entry of c once and no other row
\* with c's ID.
WritesExactly(userID, c) ==
    /\ \A e \in EntriesOf(userID, c) :
          Cardinality({i \in DOMAIN put.writeReqs : put.writeReqs[i] = e}) = 1
    /\ \A i \in DOMAIN put.writeReqs :
          put.writeReqs[i].r[3] = c.ID => put.writeReqs[i] \in EntriesOf(userID, c)

BlobsWritten == nPuts > 0 /\ put.userID # NoTenant /\ put.blobFailed = {}

\* C5 as stated: for every chunk with a __name__ of a Put whose blob writes
\* succeed, the index writes hold exactly one row per bucket and label
\* besides __name__, and no other row for the chunk.
C5_AsStated ==
    BlobsWritten =>
        \A c \in ElemsOf(put.chunks) : HasName(c) => WritesExactly(put.userID, c)

\* C5 amended: the same, for a Put all of whose chunks carry __name__ and for
\* a chunk that occurs once in the call.
C5_IndexEntries ==
    (BlobsWritten /\ \A c \in ElemsOf(put.chunks) : HasName(c)) =>
        \A c \in ElemsOf(put.chunks) :
            Cardinality({i \in DOMAIN put.chunks : put.chunks[i] = c}) = 1
            => WritesExactly(put.userID, c)

\* A chunk spanning two hourly buckets, the second one in a periodic table.
C5_Witness ==
    /\ BlobsWritten
    /\ put.chunks = <<cA, cB>>
    /\ Cardinality(EntriesOf(put.userID, cB)) = 2
    /\ \E e \in EntriesOf(put.userID, cB) : e.t # cfg.TableName
    /\ Len(put.writeReqs) = 3

\* C6: a second, identical Put([c]) leaves the blob store and the index as
\* the first one left them, and a Get matching c then returns c exactly once.
C6_IdempotentPut ==
    \A c \in Chunks :
        (put.repeat /\ put.chunks = <<c>> /\ HasName(c)) =>
            /\ put.sameStore
            /\ GotBack(c) => get.res = <<c>>

\* The part of C6 that holds: the store is unchanged, and a chunk with a
\* label besides __name__ is returned exactly once.
C6_IdempotentPutLabelled ==
    \A c \in Chunks :
        (put.repeat /\ put.chunks = <<c>> /\ HasName(c)) =>
            /\ put.sameStore
            /\ (GotBack(c) /\ Labels(c.Metric) # {MetricNameLabel}) => get.res = <<c>>

\* The chunk IDs of a list of chunks.
IDsOf(chunks) == {chunks[i].ID : i \in DOMAIN chunks}

StrictlyIncreasing(chunks) ==
    \A i, j \in DOMAIN chunks : i < j => StrLess(chunks[i].ID, chunks[j].ID)

\* C11: the list a successful Get returns is strictly increasing by chunk
\* ID: sorted, and no chunk twice.
C11_SortedUnique ==
    (get.called /\ get.err = "none") => StrictlyIncreasing(get.res)

\* A Get returned two chunks, one served by the cache and one by the blob
\* store, one of them indexed under two labels in the queried bucket.
C11_Witness ==
    /\ get.called /\ get.err = "none"
    /\ Len(get.res) = 2
    /\ Len(get.fromCache) = 1
    /\ \E c \in ElemsOf(get.res) :
          Cardinality({row \in index : row.r[3] = c.ID}) > 1

\* C14: when the lookup of a bucket fails, Get returns the lookup error and
\* still returns the chunks of the buckets whose lookup succeeded.
C14_BestEffort ==
    (get.called /\ get.lookErr = "ErrKVIO") =>
        /\ get.err = "ErrKVIO"
        /\ IDsOf(get.res) = IDsOf(get.looked)

\* What Get returns with no cache configured when every GetObject succeeds:
\* the chunks the lookup found, read from the blob store, sorted by ID.
UncachedResult == sortByID(decodeAll(s3, get.userID, get.looked))

MatchingRows(b) ==
    {row \in index :
        /\ row.t = b.tableName
        /\ row.h = hashValue(get.userID, b.bucket,
                             extractMetricName(get.matchers, 1).metricName)
        /\ \A m \in FurtherMatchers : row.r[1] = m.Name /\ Match(m, row.r[2])}

\* C20: a lookup with at most one further matcher collects the chunk of
\* every matching row of every queried bucket, on whatever page the row is;
\* so the Get returns each of these chunks that passes the time filter.
C20_AllPages ==
    (get.called /\ get.err = "none" /\ Cardinality(FurtherMatchers) <= 1) =>
        \A b \in ElemsOf(bigBuckets(cfg, get.from, get.through)) :
            \A row \in MatchingRows(b) :
                InRange(row.r[3], get.from, get.through)
                => row.r[3] \in IDsOf(get.res)

\* C25: Get leaves the slice of matchers that its caller passed as it was,
\* and a second Get with that slice returns what the first one returned.
C25_MatchersUnchanged ==
    get.called =>
        /\ get.slice = get.matchers
        /\ get.first.called =>
              (get.err = get.first.err /\ get.res = get.first.res)

-----------------------------------------------------------------------------
(* Properties of the fan-out sites (checked under SpecFan) *)

AllTasksDone == \A i \in DOMAIN fanTasks : fanTasks[i].pc = "done"

PutReturned == fanSite = "putChunks" /\ fanOp.returned

FetchFailed ==
    fanSite = "fetchChunkData" /\ fanOp.returned /\ errorsOf(fanRecv) # <<>>

\* C13: when a fetch fails, Get returns after every fetch task has reported,
\* with no chunk, the first fetch error received, and no write to the cache.
C13_FirstFetchError ==
    FetchFailed =>
        /\ AllTasksDone
        /\ fanOp.res = <<>>
        /\ fanOp.err = errorsOf(fanRecv)[1]
        /\ ~fanOp.stored

\* A chunk was fetched and two fetches failed with different errors.
C13_Witness ==
    /\ FetchFailed
    /\ valuesOf(fanRecv) # <<>>
    /\ Len(errorsOf(fanRecv)) = 2
    /\ errorsOf(fanRecv)[1] # errorsOf(fanRecv)[2]

\* C15: an operation whose context was cancelled while it waited for its
\* tasks returns a cancellation error.
C15_Cancellation ==
    (fanOp.returned /\ ctxDone = "waiting") => fanOp.err = "ErrCancelled"

\* How often the message of task i was received.
Received(i) == Cardinality({k \in DOMAIN fanRecv : fanRecv[k].task = i})

\* A task that has not yet handed over its message.
Pending(i) == fanTasks[i].pc \in {"running", "sending"}

\* C22: every task's message is received at most once, and exactly once
\* when the task has finished its send; the fan-out function returns only
\* after it has received one message per task, so that no task is left
\* blocked on its send; and until it returns some step of the fan-out can
\* be taken.
C22_AwaitAll ==
    /\ \A i \in DOMAIN fanTasks :
          Received(i) = (IF fanTasks[i].pc = "done" THEN 1 ELSE 0)
    /\ fanRet.returned =>
          /\ Len(fanRecv) = Len(fanTasks)
          /\ \A i \in DOMAIN fanTasks : ~Pending(i) /\ Received(i) = 1
    /\ ~fanRet.returned =>
          ENABLED ((\E i \in DOMAIN fanTasks : TaskCall(i) \/ Receive(i))
                   \/ FanReturn)

\* A fan-out of three tasks has returned after successes and failures that
\* it received out of the order in which it spawned the tasks.
C22_Witness ==
    /\ fanRet.returned
    /\ Len(fanTasks) = 3
    /\ fanRecv[1].task = 3
    /\ fanRecv[1].out # "ok"
    /\ fanRecv[3].task = 2
    /\ \E k \in DOMAIN fanRecv : fanRecv[k].out = "ok"

-----------------------------------------------------------------------------
(* Properties of the ruler (checked under SpecRuler) *)

WorkersExited == \A i \in DOMAIN workers : workers[i].pc = "exited"

\* C17: once Run has started the workers, a call of Stop does not panic, and
\* it has returned only if every worker loop has exited.
C17_GracefulStop ==
    server.ran =>
        /\ server.stop # "panicked"
        /\ server.stop = "returned" => WorkersExited

Evaluating(i, u) == workers[i].pc = "evaluate" /\ workers[i].item.userID = u

\* C18: a tenant handed to one worker and not yet acknowledged is not handed
\* to another worker, and no tenant is evaluated by two workers at once.
C18_NoDoubleDispatch ==
    \A i, j \in DOMAIN workers :
        i # j =>
            /\ workers[i].pending \cap workers[j].pending = {}
            /\ \A u \in Tenants : ~(Evaluating(i, u) /\ Evaluating(j, u))

\* Two workers evaluate different tenants at once, one of them an item that
\* was queued again by workItemDone.
C18_Witness ==
    /\ server.acks
    /\ Len(workers) = 2
    /\ workers[1].pc = "evaluate" /\ workers[2].pc = "evaluate"
    /\ workers[1].item.userID # workers[2].item.userID
    /\ \E i \in DOMAIN workers : workers[i].item.due >= EvaluationInterval

\* C19: a worker that is about to pop an item has acknowledged every item it
\* obtained before.
C19_Acknowledged ==
    \A i \in DOMAIN workers :
        workers[i].pc \in {"select", "next", "exited"} => workers[i].pending = {}

\* C24: after Run, a call of Stop eventually returns, whatever the state of
\* the queue and of the workers.
C24_StopReturns ==
    (server.ran /\ server.stop # "idle") ~> (server.stop = "returned")

-----------------------------------------------------------------------------
(* Properties of the per-bucket lookups (checked under SpecLookup) *)

Malformed(row) == parseRangeValue(row.r).err # "none"

\* C21: a lookup whose query holds a malformed row, on whatever page,
\* returns an error and no chunk.
C21_MalformedRowFails ==
    (lookup.called /\ \E i \in DOMAIN lookup.items : Malformed(lookup.items[i]))
    => (lookup.err # "none" /\ lookup.chunks = <<>>)

\* C23: the query of a tenant's lookup holds no row that the Put of another
\* tenant wrote.
C23_TenantPartition ==
    lookup.called =>
        \A i \in DOMAIN lookup.items :
            \A w \in writers :
                w.row = lookup.items[i] => w.userID = lookup.userID

-----------------------------------------------------------------------------
(* Properties of the bucket planner (checked under SpecPlan) *)

Planned(p) == p # NoPlan

BucketPairs(p) == {p.buckets[i] : i \in DOMAIN p.buckets}

BucketNames(p) == [i \in DOMAIN p.buckets |-> p.buckets[i].bucket]

HourBucketOf(t) == ToString(t \div H)

DayBucketOf(t) == "d" \o ToString(t \div (24 * H))

\* The positions of plan p whose bucket covers instant t.
Covering(p, t) ==
    {i \in DOMAIN p.buckets :
        p.buckets[i].bucket \in {HourBucketOf(t), DayBucketOf(t)}}

CoveredOnceBy(p, t, name) ==
    /\ Cardinality(Covering(p, t)) = 1
    /\ \A i \in Covering(p, t) : p.buckets[i].bucket = name

InstantsOf(p) == {t \in PlanTimes : p.from <= t /\ t <= p.through}

\* C7: whenever the chunk range and the query range overlap, the write plan
\* and the read plan share an identical (tableName, bucket) pair.
C7_WriteReadAgree ==
    (/\ Planned(wr) /\ Planned(rd)
     /\ wr.from <= rd.through /\ rd.from <= wr.through)
    => BucketPairs(wr) \cap BucketPairs(rd) # {}

\* Overlapping ranges with different plans that mix hourly and daily buckets
\* and base and periodic tables.
C7_Witness ==
    /\ Planned(wr) /\ Planned(rd)
    /\ wr.from <= rd.through /\ rd.from <= wr.through
    /\ BucketPairs(wr) \cap BucketPairs(rd) # {}
    /\ BucketPairs(wr) \ BucketPairs(rd) # {}
    /\ BucketPairs(rd) \ BucketPairs(wr) # {}
    /\ \E b \in BucketPairs(wr) \cap BucketPairs(rd) : b.tableName # cfg.TableName
    /\ \E b \in BucketPairs(wr) : b.bucket = "23"
    /\ \E b \in BucketPairs(rd) : b.bucket = "d2"

\* C8 as stated: every instant of the range is covered by exactly one bucket
\* of the plan, the hourly one when the instant is before DailyBucketsFrom
\* and the daily one when it is on or after DailyBucketsFrom.
C8_AsStated ==
    Planned(rd) =>
        \A t \in InstantsOf(rd) :
            CoveredOnceBy(rd, t, IF t < cfg.DailyBucketsFrom
                                 THEN HourBucketOf(t) ELSE DayBucketOf(t))

\* C8 amended: every instant of the range is covered by exactly one bucket of
\* the plan, the hourly one when the instant lies before midnight (UTC) of
\* the day DailyBucketsFrom falls on, the daily one otherwise.
C8_Continuity ==
    Planned(rd) =>
        \A t \in InstantsOf(rd) :
            CoveredOnceBy(rd, t,
                IF t \div (24 * H) < cfg.DailyBucketsFrom \div (24 * H)
                THEN HourBucketOf(t) ELSE DayBucketOf(t))

\* A range that straddles a cutover at midnight of day 1: hour 23 is covered
\* by the hourly bucket only and hour 25 by the daily bucket only.
C8_Witness ==
    /\ Planned(rd)
    /\ cfg.DailyBucketsFrom = 24 * H
    /\ rd.from = 23 * H /\ rd.through = 25 * H
    /\ BucketNames(rd) = <<"23", "d1">>

\* C9 as stated: with DailyBucketsFrom two hours after the epoch, the plan of
\* [hour 0, hour 50] starts with the hourly buckets "0" and "1" and continues
\* with daily buckets only.
C9_AsStated ==
    (Planned(rd) /\ cfg.DailyBucketsFrom = 2 * H /\ rd.from = 0 /\ rd.through = 50 * H)
    => /\ Len(rd.buckets) > 2
       /\ rd.buckets[1].bucket = "0"
       /\ rd.buckets[2].bucket = "1"
       /\ \A i \in 3..Len(rd.buckets) :
             rd.buckets[i].bucket \in {"d" \o ToString(d) : d \in 0..2}

\* C9 amended: with DailyBucketsFrom two hours after the epoch, the plan of
\* [hour 0, hour 50] is the daily buckets d0, d1, d2 and no hourly bucket.
C9_DailyOnly ==
    (Planned(rd) /\ cfg.DailyBucketsFrom = 2 * H /\ rd.from = 0 /\ rd.through = 50 * H)
    => BucketNames(rd) = <<"d0", "d1", "d2">>

C9_Witness ==
    /\ Planned(rd) /\ cfg.DailyBucketsFrom = 2 * H
    /\ rd.from = 0 /\ rd.through = 50 * H
    /\ Len(rd.buckets) = 3

IsBaseTable(b) == b.tableName = cfg.TableName

IsPeriodicTable(b) ==
    \E k \in 0..50 : b.tableName = cfg.TablePrefix \o ToString(k)

SpansPeriodicStart(p) ==
    /\ Planned(p)
    /\ cfg.UsePeriodicTables
    /\ p.from < cfg.PeriodicTableStartAt
    /\ cfg.PeriodicTableStartAt <= p.through

\* PeriodicTableStartAt is the first instant of the bucket it falls in.
StartsABucket(t) ==
    IF t \div (24 * H) < cfg.DailyBucketsFrom \div (24 * H)
    THEN t % H = 0
    ELSE t % (24 * H) = 0

\* C10 as stated: a range with from < PeriodicTableStartAt <= through has a
\* bucket in the base table and a bucket in a periodic table.
C10_AsStated ==
    SpansPeriodicStart(rd) =>
        /\ \E b \in BucketPairs(rd) : IsBaseTable(b)
        /\ \E b \in BucketPairs(rd) : IsPeriodicTable(b)

\* C10 amended: the same, provided PeriodicTableStartAt is the start of a
\* bucket (a whole hour before the day of the daily cutover, midnight UTC
\* from that day on).
C10_PeriodicBoundary ==
    (SpansPeriodicStart(rd) /\ StartsABucket(cfg.PeriodicTableStartAt)) =>
        /\ \E b \in BucketPairs(rd) : IsBaseTable(b)
        /\ \E b \in BucketPairs(rd) : IsPeriodicTable(b)

\* The query ends exactly at a PeriodicTableStartAt that starts a daily bucket.
C10_Witness ==
    /\ SpansPeriodicStart(rd)
    /\ StartsABucket(cfg.PeriodicTableStartAt)
    /\ rd.through = cfg.PeriodicTableStartAt
    /\ BucketNames(rd) = <<"d0", "d1">>
    /\ IsBaseTable(rd.buckets[1]) /\ IsPeriodicTable(rd.buckets[2])

====
